---- MODULE Spec2Model ----
(***************************************************************************)
(* Lane tracking of Advanced_Lane_Lines.ipynb: the two module-level Line   *)
(* objects `left` and `right` and the per-frame handler find_lanes, which  *)
(* MoviePy calls once per video frame through process_image.               *)
(*                                                                         *)
(* Numbers.  Every pixel-space array is an exact rational vector, written  *)
(* as a record [v |-> <<integers>>, d |-> denominator] and counted in      *)
(* 1/Unit of a pixel (v = <<0, 0, 640 * Unit>>, d = 1 is the vertical line *)
(* x = 640); a number is [n |-> numerator, d |-> denominator].  A mean of  *)
(* k raw arrays is their sum over d = k, so two records may denote the     *)
(* same value: values are compared with SameValue.  numpy's float          *)
(* arithmetic is modelled by exact rational arithmetic; a float division   *)
(* by zero follows IEEE-754 as numpy does it: the result is inf (or nan)   *)
(* and a RuntimeWarning is signalled, no exception.                        *)
(***************************************************************************)
EXTENDS Integers, Sequences, FiniteSets

\* ------------------------------------------------------------------ bounds
\* Resolution of the coefficient grid the frames are drawn from (1/Unit px).
Unit == 37
\* Number of rows of the top-down mask (binary_warped.shape[0]).
H == 3
\* Number of frames of the video that are not the nominal frame.
MaxOddFrames == 3

\* ------------------------------------------------------- program constants
n == 15
n_avg == 8
\* max_distance = 2.8 = 28/10
max_distance_num == 28
max_distance_den == 10
\* max_rel_fitx = 0.15 = 3/20
max_rel_fitx_num == 3
max_rel_fitx_den == 20
\* ym_per_pix = 30/720 = 1/24, xm_per_pix = 3.7/700 = 37/7000
ym_num == 1
ym_den == 24
xm_num == 37
xm_den == 7000

VARIABLES left, right, session, raised, np_errors, odd_frames

vars == <<left, right, session, raised, np_errors, odd_frames>>

\* ------------------------------------------------------ exact arithmetic
Abs(x) == IF x < 0 THEN -x ELSE x

\* A number num/den.
Frac(num, den) == [n |-> num, d |-> den]

\* Two arrays (or polynomials) denote the same value.
SameValue(a, b) ==
    /\ Len(a.v) = Len(b.v)
    /\ (a.d = 0) = (b.d = 0)
    /\ \A i \in 1..Len(a.v) : a.v[i] * b.d = b.v[i] * a.d

\* Natural numbers beyond 32 bits, as <<hi, lo>> = hi * 10^6 + lo.
BigNorm(hi, lo) == <<hi + (lo \div 1000000), lo % 1000000>>
BigSq(x) ==
    LET a == Abs(x)
        h == a \div 1000
        l == a % 1000
        m == 2 * h * l
    IN  BigNorm(h * h + (m \div 1000), (m % 1000) * 1000 + l * l)
BigAdd(x, y) == BigNorm(x[1] + y[1], x[2] + y[2])
BigScale(c, x) == BigNorm(c * x[1] + ((c * x[2]) \div 1000000), (c * x[2]) % 1000000)
BigLess(x, y) == x[1] < y[1] \/ (x[1] = y[1] /\ x[2] < y[2])

RECURSIVE SumSq(_, _)
\* The squared Euclidean norm of an integer vector, from index i on.
SumSq(v, i) == IF i > Len(v) THEN <<0, 0>> ELSE BigAdd(BigSq(v[i]), SumSq(v, i + 1))

\* -------------------------------------------------------- numpy operations
\* None, for a field that holds an array or a polynomial.
None == [v |-> <<>>, d |-> 0]
\* None, for a field that holds a number.
NoneNum == [n |-> 0, d |-> 0]

\* ploty = np.linspace(0, shape[0]-1, shape[0]): the rows 0 .. H-1.
ploty == [i \in 1..H |-> i - 1]

\* fit[0]*y**2 + fit[1]*y + fit[2], on the numerators of the coefficients.
PolyVal(c, y) == c[1] * y * y + c[2] * y + c[3]

\* fit[0]*ploty**2 + fit[1]*ploty + fit[2]: the curve sampled at every row.
Sample(fit) == [v |-> [i \in 1..H |-> PolyVal(fit.v, ploty[i])], d |-> fit.d]

\* x - b for two arrays of the same length.
VSub(x, b) ==
    [v |-> [i \in 1..Len(x.v) |-> x.v[i] * b.d - b.v[i] * x.d], d |-> x.d * b.d]

RECURSIVE ColSum(_, _, _)
ColSum(s, j, i) == IF i > Len(s) THEN 0 ELSE s[i].v[j] + ColSum(s, j, i + 1)

\* np.average(np.asarray(s), 0): the entry-wise mean of the arrays of s.  The
\* entries of a history are raw samples, whose denominator is 1.
np_average(s) ==
    [v |-> [j \in 1..Len(s[1].v) |-> ColSum(s, j, 1)], d |-> Len(s)]

\* s[-k:]
LastK(s, k) == IF Len(s) <= k THEN s ELSE SubSeq(s, Len(s) - k + 1, Len(s))

\* Mutant of DequeAppend: a deque without maxlen.
DequeAppend_NoMaxlen(dq, x) == Append(dq, x)

\* deque(maxlen = n).append(x): at capacity the oldest entry is dropped.
DequeAppend(dq, x) == IF Len(dq) = n THEN Append(Tail(dq), x) ELSE Append(dq, x)

\* deque.pop(): removes the newest entry.
DequePop(dq) == SubSeq(dq, 1, Len(dq) - 1)

\* deque.pop() on an empty deque raises IndexError.
pop_raises(dq) == Len(dq) = 0

\* np.linalg.norm(x - b) / np.linalg.norm(b), kept as the two squared norms
\* over the common denominator: num2 / den2 is the square of the quotient.
\* den2 = 0 is a float division by zero: the quotient is inf or nan.
RelDiff(x, b) ==
    [num2 |-> SumSq([i \in 1..Len(x.v) |-> x.v[i] * b.d - b.v[i] * x.d], 1),
     den2 |-> BigScale(x.d * x.d, SumSq(b.v, 1))]

\* rel < p/q.  inf < p/q and nan < p/q are both False.
RelLess(rel, p, q) ==
    /\ rel.den2 # <<0, 0>>
    /\ BigLess(BigScale(q * q, rel.num2), BigScale(p * p, rel.den2))

\* abs(f) <= p/q
AbsLeq(f, p, q) == Abs(f.n) * q <= p * f.d

\* ------------------------------------------------------------- class Line
\* Line.__init__.  allx and ally hold the pixel cluster of the last frame.
Line ==
    [detected            |-> FALSE,
     recent_xfitted      |-> <<>>,
     bestx               |-> None,
     recent_fits         |-> <<>>,
     best_fit            |-> None,
     current_fit         |-> [v |-> <<0>>, d |-> 1],
     radius_of_curvature |-> [kind |-> "None", slope |-> NoneNum, twoa |-> NoneNum],
     line_base_pos       |-> NoneNum,
     diffs               |-> [v |-> <<0, 0, 0>>, d |-> 1],
     allx                |-> [n |-> 0, fit |-> None],
     ally                |-> [n |-> 0, fit |-> None]]

\* ------------------------------------------------------------- find_lanes
\* A pixel cluster of one side is kept as its number of pixels n and the
\* least-squares quadratic through them, fit (None when there is no pixel).
\* np.polyfit raises TypeError("expected non-empty vector for x") on an empty
\* cluster; on 1 or 2 pixels it only warns (RankWarning) and returns a fit.
polyfit_raises(cl) == cl.n = 0
polyfit(cl) == cl.fit

\* np.polyfit(y*ym_per_pix, x*xm_per_pix, 2): the least-squares fit of the
\* rescaled points is the pixel fit with its coefficients rescaled,
\* a*xm/ym^2, b*xm/ym, c*xm, in metres (the 1/Unit goes into the denominator).
polyfit_cr(cl) ==
    LET f == cl.fit
    IN  [v |-> <<f.v[1] * xm_num * ym_den * ym_den,
                 f.v[2] * xm_num * ym_den * ym_num,
                 f.v[3] * xm_num * ym_num * ym_num>>,
         d |-> f.d * Unit * xm_den * ym_num * ym_num]

\* y_eval = np.max(ploty)
y_eval == H - 1

\* (right_fit[0]*y_eval**2 + right_fit[1]*y_eval + right_fit[2] - 640.0)*3.7/600.0
right_line_base_pos(right_fit) ==
    Frac((PolyVal(right_fit.v, y_eval) - 640 * Unit * right_fit.d) * 37,
         6000 * Unit * right_fit.d)

\* (left_fit[0]*720.0**2 + left_fit[1]*720.0 + left_fit[2] - 640.0)*3.7/600.0
left_line_base_pos(left_fit) ==
    Frac((PolyVal(left_fit.v, 720) - 640 * Unit * left_fit.d) * 37,
         6000 * Unit * left_fit.d)

\* Mutant of Accepts: abs(line_base_pos) < max_distance.
Accepts_Strict(line_base_pos, rel_diff) ==
    /\ Abs(line_base_pos.n) * max_distance_den < max_distance_num * line_base_pos.d
    /\ RelLess(rel_diff, max_rel_fitx_num, max_rel_fitx_den)

\* abs(line_base_pos) <= max_distance and rel_diff < max_rel_fitx
Accepts(line_base_pos, rel_diff) ==
    /\ AbsLeq(line_base_pos, max_distance_num, max_distance_den)
    /\ RelLess(rel_diff, max_rel_fitx_num, max_rel_fitx_den)

\* Mutant of Seeds: the seeding branch is taken for the first fit only.
Seeds_FirstOnly(line) == line.best_fit = None

\* if len(line.recent_fits) == 0: the lane's block takes its seeding branch.
Seeds(line) == Len(line.recent_fits) = 0

\* Mutant of SeedRight: the first fit is held to max_distance as well.
SeedRight_Validated(line, right_fit, right_fitx) ==
    IF AbsLeq(right_line_base_pos(right_fit), max_distance_num, max_distance_den)
    THEN [line EXCEPT !.detected = TRUE,
                      !.recent_xfitted = DequeAppend(@, right_fitx),
                      !.recent_fits = DequeAppend(@, right_fit),
                      !.current_fit = right_fit,
                      !.best_fit = right_fit,
                      !.bestx = right_fitx]
    ELSE [line EXCEPT !.detected = FALSE]

\* if len(right.recent_fits) == 0: the first fit seeds the lane.
SeedRight(line, right_fit, right_fitx) ==
    [line EXCEPT !.detected = TRUE,
                 !.recent_xfitted = DequeAppend(@, right_fitx),
                 !.recent_fits = DequeAppend(@, right_fit),
                 !.current_fit = right_fit,
                 !.best_fit = right_fit,
                 !.bestx = right_fitx]

\* Mutant of AcceptRight: the sampled curve is not pushed.
AcceptRight_FitsOnly(line, right_fit, right_fitx) ==
    LET xs == line.recent_xfitted
        fs == DequeAppend(line.recent_fits, right_fit)
    IN  [line EXCEPT !.detected = TRUE,
                     !.recent_xfitted = xs,
                     !.bestx = np_average(xs),
                     !.recent_fits = fs,
                     !.best_fit = np_average(fs),
                     !.current_fit = right_fit]

\* The branch taken when the new fit passes: it joins both histories and the
\* means are taken over all of them.
AcceptRight(line, right_fit, right_fitx) ==
    LET xs == DequeAppend(line.recent_xfitted, right_fitx)
        fs == DequeAppend(line.recent_fits, right_fit)
    IN  [line EXCEPT !.detected = TRUE,
                     !.recent_xfitted = xs,
                     !.bestx = np_average(xs),
                     !.recent_fits = fs,
                     !.best_fit = np_average(fs),
                     !.current_fit = right_fit]

\* Mutant of RejectRight: the means are taken over all the entries left.
RejectRight_MeanOfAll(line) ==
    LET fs == DequePop(line.recent_fits)
        xs == DequePop(line.recent_xfitted)
        popped == [line EXCEPT !.detected = FALSE,
                               !.recent_fits = fs,
                               !.recent_xfitted = xs]
    IN  IF Len(fs) > 0
        THEN [popped EXCEPT !.bestx = np_average(xs),
                            !.best_fit = np_average(fs),
                            !.current_fit = np_average(fs)]
        ELSE popped

\* Mutant of RejectRight: detected is cleared only when an entry is left.
RejectRight_DetectedIfLeft(line) ==
    LET fs == DequePop(line.recent_fits)
        xs == DequePop(line.recent_xfitted)
        popped == [line EXCEPT !.recent_fits = fs, !.recent_xfitted = xs]
    IN  IF Len(fs) > 0
        THEN [popped EXCEPT !.detected = FALSE,
                            !.bestx = np_average(LastK(xs, n_avg)),
                            !.best_fit = np_average(LastK(fs, n_avg)),
                            !.current_fit = np_average(LastK(fs, n_avg))]
        ELSE popped

\* The branch taken when the new fit fails: the newest entry of both histories
\* is popped and, if any entry is left, the means are taken over the last n_avg.
RejectRight(line) ==
    LET fs == DequePop(line.recent_fits)
        xs == DequePop(line.recent_xfitted)
        popped == [line EXCEPT !.detected = FALSE,
                               !.recent_fits = fs,
                               !.recent_xfitted = xs]
    IN  IF Len(fs) > 0
        THEN [popped EXCEPT !.bestx = np_average(LastK(xs, n_avg)),
                            !.best_fit = np_average(LastK(fs, n_avg)),
                            !.current_fit = np_average(LastK(fs, n_avg))]
        ELSE popped

\* The "update right lane" block: the Line `right` after it.
UpdateRight(line, right_fit, right_fitx, cl) ==
    IF Seeds(line)
    THEN SeedRight(line, right_fit, right_fitx)
    ELSE LET line_base_pos == right_line_base_pos(right_fit)
             rel_diff == RelDiff(right_fitx, line.bestx)
             seen == [line EXCEPT !.line_base_pos = line_base_pos,
                                  !.diffs = VSub(right_fitx, line.bestx)]
             done == IF Accepts(line_base_pos, rel_diff)
                     THEN AcceptRight(seen, right_fit, right_fitx)
                     ELSE RejectRight(seen)
         IN  [done EXCEPT !.allx = cl, !.ally = cl]

\* if len(left.recent_fits) == 0: the first fit seeds the lane.
SeedLeft(line, left_fit, left_fitx) ==
    [line EXCEPT !.detected = TRUE,
                 !.recent_xfitted = DequeAppend(@, left_fitx),
                 !.recent_fits = DequeAppend(@, left_fit),
                 !.current_fit = left_fit,
                 !.best_fit = left_fit,
                 !.bestx = left_fitx]

\* The branch taken when the new fit passes: it joins both histories and the
\* means are taken over all of them.
AcceptLeft(line, left_fit, left_fitx) ==
    LET xs == DequeAppend(line.recent_xfitted, left_fitx)
        fs == DequeAppend(line.recent_fits, left_fit)
    IN  [line EXCEPT !.detected = TRUE,
                     !.recent_xfitted = xs,
                     !.bestx = np_average(xs),
                     !.recent_fits = fs,
                     !.best_fit = np_average(fs),
                     !.current_fit = left_fit]

\* The branch taken when the new fit fails: the newest entry of both histories
\* is popped and, if any entry is left, the means are taken over the last n_avg.
RejectLeft(line) ==
    LET fs == DequePop(line.recent_fits)
        xs == DequePop(line.recent_xfitted)
        popped == [line EXCEPT !.detected = FALSE,
                               !.recent_fits = fs,
                               !.recent_xfitted = xs]
    IN  IF Len(fs) > 0
        THEN [popped EXCEPT !.bestx = np_average(LastK(xs, n_avg)),
                            !.best_fit = np_average(LastK(fs, n_avg)),
                            !.current_fit = np_average(LastK(fs, n_avg))]
        ELSE popped

\* The "update left lane" block: the Line `left` after it.
UpdateLeft(line, left_fit, left_fitx, cl) ==
    IF Seeds(line)
    THEN SeedLeft(line, left_fit, left_fitx)
    ELSE LET line_base_pos == left_line_base_pos(left_fit)
             rel_diff == RelDiff(left_fitx, line.bestx)
             seen == [line EXCEPT !.line_base_pos = line_base_pos,
                                  !.diffs = VSub(left_fitx, line.bestx)]
             done == IF Accepts(line_base_pos, rel_diff)
                     THEN AcceptLeft(seen, left_fit, left_fitx)
                     ELSE RejectLeft(seen)
         IN  [done EXCEPT !.allx = cl, !.ally = cl]

\* The lane's block takes its reject branch on a history it cannot pop:
\* right.recent_fits.pop() or right.recent_xfitted.pop() raises IndexError.
RejectRaises(line, line_base_pos, fitx) ==
    /\ ~Seeds(line)
    /\ pop_raises(line.recent_fits) \/ pop_raises(line.recent_xfitted)
    /\ ~Accepts(line_base_pos, RelDiff(fitx, line.bestx))

\* The Line the raising pop leaves behind: what the block assigned before it.
RejectRaised(line, line_base_pos, fitx) ==
    [line EXCEPT !.line_base_pos = line_base_pos,
                 !.diffs = VSub(fitx, line.bestx),
                 !.detected = FALSE,
                 !.recent_fits = IF pop_raises(@) THEN @ ELSE DequePop(@)]

\* The fit find_lanes goes on with after a lane's block: the seeding branch
\* leaves the raw fit, the other branch replaces it by line.best_fit.
FitAfter(before, after, raw_fit) ==
    IF Seeds(before) THEN raw_fit ELSE after.best_fit

\* ((1 + (2*fit_cr[0]*y_eval*ym_per_pix + fit_cr[1])**2)**1.5) / np.absolute(2*fit_cr[0])
\* kept as its parts: the radius is (1 + slope^2)^1.5 / twoa.  The numerator is
\* at least 1, so a float division by twoa = 0 yields inf.
curverad(fit_cr) ==
    LET slope == Frac(2 * fit_cr.v[1] * y_eval * ym_num + fit_cr.v[2] * ym_den,
                      fit_cr.d * ym_den)
        twoa == Frac(Abs(2 * fit_cr.v[1]), fit_cr.d)
    IN  [kind |-> IF twoa.n = 0 THEN "inf" ELSE "finite",
         slope |-> slope, twoa |-> twoa]

\* The float divisions by exactly zero that computing the radius performs.
curverad_errors(fit_cr) == IF fit_cr.v[1] = 0 THEN {"divide by zero"} ELSE {}

\* image_size[1] - 1.  image_size is read from the module-level img (the last
\* calibration image), taken here to have as many rows as the frames have.
last_row == H - 1

\* lane_center = (left_fitx[last] + right_fitx[last])/2.0
\* line_base_pos = (lane_center - 1280/2.0)*xm_per_pix
offset(left_fitx, right_fitx) ==
    LET l == left_fitx.v[last_row + 1]
        r == right_fitx.v[last_row + 1]
        ld == left_fitx.d
        rd == right_fitx.d
    IN  Frac((l * rd + r * ld - 1280 * Unit * ld * rd) * xm_num,
             2 * ld * rd * Unit * xm_den)

\* The float divisions by exactly zero that computing rel_diff performs
\* (np.linalg.norm(bestx) = 0), none while the lane is being seeded.
rel_diff_errors(line, fitx, tag) ==
    IF ~Seeds(line) /\ RelDiff(fitx, line.bestx).den2 = <<0, 0>>
    THEN {tag} ELSE {}

\* One call of find_lanes on the frame whose pixel clusters are f.l and f.r.
\* An exception leaves find_lanes, process_image and write_videofile: the
\* session ends.  np_errors names the expressions of this call that divided a
\* float by exactly zero (numpy signals a RuntimeWarning and goes on).
find_lanes(f) ==
    /\ session = "running"
    /\ IF polyfit_raises(f.l) \/ polyfit_raises(f.r)
       THEN /\ session' = "aborted"
            /\ raised' = "TypeError"
            /\ np_errors' = {}
            /\ UNCHANGED <<left, right>>
       ELSE LET left_fit == polyfit(f.l)
                right_fit == polyfit(f.r)
                left_fit_cr == polyfit_cr(f.l)
                right_fit_cr == polyfit_cr(f.r)
                left_fitx == Sample(left_fit)
                right_fitx == Sample(right_fit)
                r1 == UpdateRight(right, right_fit, right_fitx, f.r)
                l1 == UpdateLeft(left, left_fit, left_fitx, f.l)
                right_fitx2 == Sample(FitAfter(right, r1, right_fit))
                left_fitx2 == Sample(FitAfter(left, l1, left_fit))
                line_base_pos == offset(left_fitx2, right_fitx2)
            IN  IF RejectRaises(right, right_line_base_pos(right_fit), right_fitx)
                THEN /\ session' = "aborted"
                     /\ raised' = "IndexError"
                     /\ right' = RejectRaised(right, right_line_base_pos(right_fit),
                                              right_fitx)
                     /\ np_errors' =
                            rel_diff_errors(right, right_fitx, "right rel_diff")
                     /\ UNCHANGED left
                ELSE IF RejectRaises(left, left_line_base_pos(left_fit), left_fitx)
                THEN /\ session' = "aborted"
                     /\ raised' = "IndexError"
                     /\ right' = r1
                     /\ left' = RejectRaised(left, left_line_base_pos(left_fit),
                                             left_fitx)
                     /\ np_errors' =
                            rel_diff_errors(right, right_fitx, "right rel_diff")
                            \cup rel_diff_errors(left, left_fitx, "left rel_diff")
                ELSE /\ right' = [r1 EXCEPT
                                    !.radius_of_curvature = curverad(right_fit_cr),
                                    !.line_base_pos = line_base_pos]
                     /\ left' = [l1 EXCEPT
                                    !.radius_of_curvature = curverad(left_fit_cr),
                                    !.line_base_pos = line_base_pos]
                     /\ np_errors' =
                            rel_diff_errors(right, right_fitx, "right rel_diff")
                            \cup rel_diff_errors(left, left_fitx, "left rel_diff")
                            \cup (IF curverad_errors(left_fit_cr) # {}
                                  THEN {"left_curverad"} ELSE {})
                            \cup (IF curverad_errors(right_fit_cr) # {}
                                  THEN {"right_curverad"} ELSE {})
                     /\ UNCHANGED <<session, raised>>

\* ------------------------------------------------------------ the frames
\* A raw pixel-space fit a*y^2 + b*y + c with a, b, c in 1/Unit pixel.
Fit(a, b, c) == [v |-> <<a, b, c>>, d |-> 1]
Cluster(k, fit) == [n |-> k, fit |-> fit]
NoPixels == [n |-> 0, fit |-> None]

\* Left lane: two fits that pass next to each other, ...
Lg == Fit(0, 1, 310 * Unit)
Lh == Fit(0, 0, 300 * Unit)
\* ... one whose curve is exactly 15% off the curve of Lh (255 = 0.85 * 300)
\* and at least 15% off every mean of Lg and Lh, ...
Lrel == Fit(0, 0, 255 * Unit)
\* ... and one close to Lh on the sampled rows but far off at row 720.
Llbp == Fit(1, 0, 300 * Unit)

\* Right lane: two fits that pass next to each other, Rh with its bottom-row
\* position at the largest accepted distance ((x - 640)*3.7/600 = 2.8 is
\* x - 640 = 16800/37 pixels, a whole number of units when Unit = 37), ...
Rg == Fit(1, 0, 1000 * Unit)
Rh == Fit(0, 0, 640 * Unit + ((16800 * Unit) \div 37))
\* ... one a single unit further out, and one more than 15% off both.
Rlbp == Fit(0, 0, 640 * Unit + ((16800 * Unit) \div 37) + 1)
Rrel == Fit(0, 0, 800 * Unit)

\* The frame most of the video is made of.
Nominal == [l |-> Cluster(120, Lg), r |-> Cluster(120, Rg)]

Frames ==
    {Nominal,
     [l |-> Cluster(120, Lh),   r |-> Cluster(120, Rh)],
     [l |-> Cluster(120, Lrel), r |-> Cluster(120, Rrel)],
     [l |-> Cluster(120, Llbp), r |-> Cluster(120, Rlbp)],
     \* one pixel on the left, two on the right: polyfit still returns a fit
     [l |-> Cluster(1, Lh),     r |-> Cluster(2, Rh)],
     \* no pixel on one side
     [l |-> NoPixels,           r |-> Cluster(120, Rg)],
     [l |-> Cluster(120, Lg),   r |-> NoPixels]}

\* ------------------------------------------------------ the state machine
\* left = Line(); right = Line(); the video has not started.
Init ==
    /\ left = Line
    /\ right = Line
    /\ session = "running"
    /\ raised = ""
    /\ np_errors = {}
    /\ odd_frames = 0

\* clip.fl_image(process_image): one call per frame, in order.
\* The video delivers frame f.
Feed(f) ==
    /\ f = Nominal \/ odd_frames < MaxOddFrames
    /\ odd_frames' = IF f = Nominal THEN odd_frames ELSE odd_frames + 1
    /\ find_lanes(f)

process_image == \E f \in Frames : Feed(f)

Next == process_image

Spec == Init /\ [][Next]_vars

\* ================================================================ claims
\* Frame f was processed to the end: find_lanes returned.  A block that did
\* not seed has stored the frame's cluster in allx, which tells most frames
\* apart before the whole call is compared.
Updated(f) ==
    /\ session' = "running"
    /\ ~Seeds(right) => right'.allx = f.r
    /\ ~Seeds(left) => left'.allx = f.l
    /\ Feed(f)

\* The acceptance test as the claims word it, on the value the lane's block
\* computes for line_base_pos and on rel_diff against the lane's bestx.
RightPasses(f) ==
    /\ AbsLeq(right_line_base_pos(f.r.fit), max_distance_num, max_distance_den)
    /\ RelLess(RelDiff(Sample(f.r.fit), right.bestx), max_rel_fitx_num, max_rel_fitx_den)
LeftPasses(f) ==
    /\ AbsLeq(left_line_base_pos(f.l.fit), max_distance_num, max_distance_den)
    /\ RelLess(RelDiff(Sample(f.l.fit), left.bestx), max_rel_fitx_num, max_rel_fitx_den)

\* Both histories of `after` are those of `before` with the pair (fit, curve)
\* appended, the oldest pair dropped when `before` was full.
Pushed(before, after, fit) ==
    LET k == IF Len(before.recent_fits) = n THEN 2 ELSE 1
    IN  /\ after.recent_fits =
             Append(SubSeq(before.recent_fits, k, Len(before.recent_fits)), fit)
        /\ after.recent_xfitted =
             Append(SubSeq(before.recent_xfitted, k, Len(before.recent_xfitted)),
                    Sample(fit))

\* ---- C1
C1_LenBound ==
    /\ Len(left.recent_fits) <= n /\ Len(left.recent_xfitted) <= n
    /\ Len(right.recent_fits) <= n /\ Len(right.recent_xfitted) <= n

C1_Evicts ==
    \A f \in Frames :
        Updated(f) =>
            /\ (Len(right.recent_fits) = n /\ RightPasses(f)) =>
                   /\ Pushed(right, right', f.r.fit)
                   /\ Len(right'.recent_fits) = n
            /\ (Len(left.recent_fits) = n /\ LeftPasses(f)) =>
                   /\ Pushed(left, left', f.l.fit)
                   /\ Len(left'.recent_fits) = n

\* C1: for each lane, after any sequence of find_lanes frame updates,
\* recent_fits and recent_xfitted hold at most n = 15 entries, and an accepted
\* fit that arrives at capacity evicts the oldest entry.
C1_BoundedHistory == []C1_LenBound /\ [][C1_Evicts]_vars

\* A full right history of nominal fits whose last accepted fit differed from
\* the mean it was tested against: an older, different entry has been evicted.
C1_Witness ==
    /\ right.detected
    /\ Len(right.recent_fits) = n
    /\ \A i \in 1..n : right.recent_fits[i] = Rg
    /\ \E i \in 1..Len(right.diffs.v) : right.diffs.v[i] # 0

\* ---- C2
C2_Seeded(before, after, fit) ==
    Len(before.recent_fits) = 0 =>
        /\ after.recent_fits = <<fit>>
        /\ after.recent_xfitted = <<Sample(fit)>>
        /\ after.best_fit = fit
        /\ after.bestx = Sample(fit)
        /\ after.current_fit = fit
        /\ after.detected = TRUE

\* C2: an update of a lane whose history is empty accepts the new fit whatever
\* its line_base_pos and rel_diff would be: afterwards the history holds
\* exactly that (fit, curve) pair, best_fit = current_fit = the fit, bestx =
\* its curve and detected = True.
C2_FirstFitAccepted ==
    [][\A f \in Frames :
          Updated(f) => /\ C2_Seeded(right, right', f.r.fit)
                        /\ C2_Seeded(left, left', f.l.fit)]_vars

\* The right lane seeded by a fit whose line_base_pos exceeds max_distance.
C2_Witness ==
    /\ right.recent_fits = <<Rlbp>>
    /\ right.best_fit = Rlbp
    /\ right.detected
    /\ ~AbsLeq(right_line_base_pos(Rlbp), max_distance_num, max_distance_den)

\* ---- C3
C3_Gate(before, after, fit, passes) ==
    Len(before.recent_fits) # 0 =>
        /\ passes <=> Pushed(before, after, fit)
        /\ passes => after.current_fit = fit

\* C3: an update of a lane whose history is not empty pushes the new pair iff
\* |line_base_pos| <= max_distance (2.8) and rel_diff < max_rel_fitx (0.15),
\* so exactly 2.8 is accepted and exactly 0.15 rejected; on acceptance
\* current_fit is the new fit.
C3_AcceptIff ==
    [][\A f \in Frames :
          Updated(f) => /\ C3_Gate(right, right', f.r.fit, RightPasses(f))
                        /\ C3_Gate(left, left', f.l.fit, LeftPasses(f))]_vars

\* The right lane has just accepted Rh, whose line_base_pos is exactly 2.8.
C3_Witness ==
    /\ right.detected
    /\ Len(right.recent_fits) >= 2
    /\ right.recent_fits[Len(right.recent_fits)] = Rh
    /\ right.current_fit = Rh
    /\ right_line_base_pos(Rh).n * max_distance_den
           = max_distance_num * right_line_base_pos(Rh).d

\* ---- C4
C4_Kept(before, after, passes) ==
    (Len(before.recent_fits) # 0 /\ ~passes) =>
        /\ after.recent_fits = before.recent_fits
        /\ after.recent_xfitted = before.recent_xfitted

\* C4: a rejected update (rel_diff >= 0.15 or |line_base_pos| > 2.8 on a lane
\* whose history is not empty) adds nothing and leaves both histories of the
\* lane with the entries they had.
C4_RejectKeepsHistory ==
    [][\A f \in Frames :
          Updated(f) => /\ C4_Kept(right, right', RightPasses(f))
                        /\ C4_Kept(left, left', LeftPasses(f))]_vars

\* ---- C5
C5_MeanOfAll(line) ==
    Len(line.recent_fits) # 0 =>
        /\ SameValue(line.best_fit, np_average(line.recent_fits))
        /\ SameValue(line.bestx, np_average(line.recent_xfitted))

C5_MeanOfWindow(line) ==
    Len(line.recent_fits) # 0 =>
        IF line.detected
        THEN /\ SameValue(line.best_fit, np_average(line.recent_fits))
             /\ SameValue(line.bestx, np_average(line.recent_xfitted))
        ELSE /\ SameValue(line.best_fit, np_average(LastK(line.recent_fits, n_avg)))
             /\ SameValue(line.bestx, np_average(LastK(line.recent_xfitted, n_avg)))

C6_Mean(before, after, passes) ==
    (Len(before.recent_fits) # 0 /\ ~passes) =>
        /\ SameValue(after.best_fit, np_average(LastK(before.recent_fits, n_avg)))
        /\ after.current_fit = after.best_fit

\* C6: after a rejected update best_fit is the mean of the newest (at most
\* n_avg = 8) entries of the history as it stood before the update, the
\* rejected fit not among them, and current_fit is that best_fit.
C6_RejectMeanOfLastAccepted ==
    [][\A f \in Frames :
          Updated(f) => /\ C6_Mean(right, right', RightPasses(f))
                        /\ C6_Mean(left, left', LeftPasses(f))]_vars

\* ---- C7
\* C7: once a lane's history holds an entry, no further update empties it.
C7_NeverEmptied ==
    [][/\ Len(right.recent_fits) # 0 => Len(right'.recent_fits) # 0
       /\ Len(left.recent_fits) # 0 => Len(left'.recent_fits) # 0]_vars

\* ---- C8
\* C8: after every update of a lane, detected is True exactly when the update
\* accepted the new fit (it seeded an empty history or passed the test) and
\* False exactly when it rejected it, however many entries are left to average.
C8_DetectedIffAccepted ==
    [][\A f \in Frames :
          Updated(f) =>
              /\ right'.detected = (Len(right.recent_fits) = 0 \/ RightPasses(f))
              /\ left'.detected = (Len(left.recent_fits) = 0 \/ LeftPasses(f))]_vars

\* A rejection has emptied the right lane's history: nothing is left to
\* average (best_fit is the old one), and detected is False.
C8_Witness ==
    /\ ~right.detected
    /\ Len(right.recent_fits) = 0
    /\ right.best_fit # None

\* ---- C9
C9_FellBack(cl, before, after) ==
    cl.n < 3 =>
        /\ session' = "running"
        /\ after.detected = FALSE
        /\ after.recent_fits = before.recent_fits
        /\ after.best_fit = before.best_fit
        /\ after.current_fit = before.current_fit

\* C9: a frame whose pixel cluster for a side has fewer than 3 points does not
\* end the session: the lane keeps its current_fit and best_fit, the frame
\* counts as a rejection (no new entry, detected = False) and later frames are
\* still processed.
C9_FewPixelsAbsorbed ==
    [][\A f \in Frames :
          Feed(f) => /\ C9_FellBack(f.r, right, right')
                     /\ C9_FellBack(f.l, left, left')]_vars

\* ---- C10
C10_Guarded(line, tag) ==
    line.radius_of_curvature.kind # "None" =>
        IF line.radius_of_curvature.twoa.n = 0
        THEN /\ line.radius_of_curvature.kind = "inf"
             /\ tag \notin np_errors
        ELSE line.radius_of_curvature.kind = "finite"

\* C10: when the world-space fit has a = 0 the radius is an explicit infinite
\* value and no division by zero is performed; when a # 0 the radius is
\* (1 + (2*a*y + b)^2)^1.5 / |2*a|.
C10_NoDivisionByZero ==
    /\ C10_Guarded(left, "left_curverad")
    /\ C10_Guarded(right, "right_curverad")

\* ---- C11
RECURSIVE GCD(_, _)
GCD(a, b) == IF b = 0 THEN a ELSE GCD(b, a % b)

\* Two numbers with positive denominators denote the same value.
SameNum(a, b) ==
    LET ga == GCD(Abs(a.n), a.d)
        gb == GCD(Abs(b.n), b.d)
    IN  /\ a.n \div ga = b.n \div gb
        /\ a.d \div ga = b.d \div gb

C11_Kept(before, after, validation) ==
    Len(before.recent_fits) # 0 => SameNum(after.line_base_pos, validation)

\* C11: the offset reported at the end of a frame is kept apart from the
\* line_base_pos the acceptance test computed: when find_lanes returns, the
\* lane's line_base_pos still holds the value its own test computed in that
\* frame.
C11_ValidationValueKept ==
    [][\A f \in Frames :
          Updated(f) =>
              /\ C11_Kept(right, right', right_line_base_pos(f.r.fit))
              /\ C11_Kept(left, left', left_line_base_pos(f.l.fit))]_vars

\* ---- C12
\* (newFit evaluated at yBottom - imageCenterX) * xm_per_pix, yBottom = y_eval.
C12_BasePos(fit) ==
    Frac((PolyVal(fit.v, y_eval) - 640 * Unit * fit.d) * xm_num,
         xm_den * Unit * fit.d)

C12_Decides(before, after, fit, computed) ==
    Len(before.recent_fits) # 0 =>
        /\ SameNum(computed, C12_BasePos(fit))
        /\ after.detected =
             (/\ AbsLeq(C12_BasePos(fit), max_distance_num, max_distance_den)
              /\ RelLess(RelDiff(Sample(fit), before.bestx),
                         max_rel_fitx_num, max_rel_fitx_den))

\* C12: both lanes compute the line_base_pos of the test as
\* (fit(y_eval) - 640) * xm_per_pix, xm_per_pix = 3.7/700, so a fit gets the
\* same value from the left and from the right block and the same decision
\* against max_distance.
C12_SameValidation ==
    [][\A f \in Frames :
          Updated(f) =>
              /\ SameNum(left_line_base_pos(f.r.fit), right_line_base_pos(f.r.fit))
              /\ SameNum(left_line_base_pos(f.l.fit), right_line_base_pos(f.l.fit))
              /\ C12_Decides(right, right', f.r.fit, right_line_base_pos(f.r.fit))
              /\ C12_Decides(left, left', f.l.fit, left_line_base_pos(f.l.fit))]_vars

\* ---- C13
\* The lane's block takes its reject branch for the fit.
C13_Rejects(line, line_base_pos, fit) ==
    /\ ~Seeds(line)
    /\ ~Accepts(line_base_pos, RelDiff(Sample(fit), line.bestx))

\* The reject branch finds an entry in both histories and removes exactly it.
C13_Pops(before, after) ==
    /\ Len(before.recent_fits) >= 1
    /\ Len(before.recent_xfitted) >= 1
    /\ after.recent_fits = DequePop(before.recent_fits)
    /\ after.recent_xfitted = DequePop(before.recent_xfitted)

\* C13: the pop of the reject branch never runs on an empty history: whenever
\* a lane's block takes its reject branch, recent_fits and recent_xfitted both
\* hold at least one entry, the pop removes it, and no frame ends in the
\* IndexError of a pop on an empty deque.
C13_NoUnderflow ==
    [][/\ raised' # "IndexError"
       /\ \A f \in Frames :
             Updated(f) =>
                 /\ C13_Rejects(right, right_line_base_pos(f.r.fit), f.r.fit)
                       => C13_Pops(right, right')
                 /\ C13_Rejects(left, left_line_base_pos(f.l.fit), f.l.fit)
                       => C13_Pops(left, left')]_vars

\* Rejected frames, at least two of them, have popped every entry off both
\* histories of both lanes, and the video goes on.
C13_Witness ==
    /\ session = "running"
    /\ raised = ""
    /\ odd_frames >= 3
    /\ ~left.detected /\ ~right.detected
    /\ Len(left.recent_fits) = 0 /\ Len(left.recent_xfitted) = 0
    /\ Len(right.recent_fits) = 0 /\ Len(right.recent_xfitted) = 0
    /\ left.best_fit # None /\ right.best_fit # None

\* ---- C14
\* Entry i of recent_xfitted is the curve of entry i of recent_fits, and the
\* two means are means over the same frames: bestx is the curve of best_fit.
C14_Paired(line) ==
    /\ Len(line.recent_fits) = Len(line.recent_xfitted)
    /\ \A i \in 1..Len(line.recent_fits) :
          line.recent_xfitted[i] = Sample(line.recent_fits[i])
    /\ (line.best_fit = None) = (line.bestx = None)
    /\ line.best_fit # None => SameValue(line.bestx, Sample(line.best_fit))

\* C14: for each lane recent_fits and recent_xfitted always have the same
\* length and hold, position by position, the fit and the sampled curve of the
\* same frame, so best_fit and bestx are averaged over the same frames.
C14_HistoriesInStep == C14_Paired(left) /\ C14_Paired(right)

\* A rejection on a full right history of different fits: the pop left n - 1
\* pairs and both means cover the last n_avg of them, not all.
C14_Witness ==
    /\ ~right.detected
    /\ Len(right.recent_fits) = n - 1
    /\ Len(right.recent_xfitted) = n - 1
    /\ \E i, j \in 1..(n - 1) : right.recent_fits[i] # right.recent_fits[j]
    /\ SameValue(right.bestx, Sample(right.best_fit))
    /\ ~SameValue(right.bestx, np_average(right.recent_xfitted))
====
